---------------------------- MODULE Spec2Model ----------------------------
(***************************************************************************)
(* aubio, src/spectral/fft.c: the FFTW3 binding of the real FFT, in the    *)
(* build with HAVE_COMPLEX_H (specdata holds winsize/2+1 complex bins).    *)
(*                                                                         *)
(* Numbers.  Samples and spectral components are exact integers.  The      *)
(* engine's complex cell is <<re, im>>; its imaginary coordinate is        *)
(* counted in units of sqrt(ImUnitSq(N)), so that the DFT of size 3 is     *)
(* exact too (units of sqrt(3)); for N = 1, 2, 4 the unit is 1.            *)
(* A magnitude m = c*sqrt(d), d square-free, is the pair <<c, d>>.         *)
(* A phase angle is the primitive lattice direction <<y, x>> it points to: *)
(* 0 is <<0, 1>>, PI is <<0, -1>>.  A scaled output sample is the reduced  *)
(* fraction <<p, q>>.                                                      *)
(***************************************************************************)
EXTENDS Integers, Sequences, FiniteSets, TLC

\* ------------------------------------------------------------------ bounds

\* number of caller threads
NThreads == 2
\* frames passed to aubio_fft_do: one sample of amplitude <= MaxAmp (times
\* TwDen), the other samples 0
MaxAmp == 1

\* window sizes requested from new_aubio_fft: 0 is the size the engine
\* rejects; 1..4 are the sizes whose DFT is exact on the integer lattice
WinSizes == {0, 1, 2, 3, 4}

Threads == 1 .. NThreads

\* ----------------------------------------------------------- arithmetic

Abs(x) == IF x < 0 THEN -x ELSE x

Max(a, b) == IF a > b THEN a ELSE b

\* Euclid's algorithm on 0 <= a, b
GCD(a, b) ==
  LET g[p \in (0 .. Max(a, b)) \X (0 .. Max(a, b))] ==
        IF p[2] = 0 THEN p[1] ELSE g[<<p[2], p[1] % p[2]>>]
  IN g[<<a, b>>]

\* zero-based array of n cells, all v
ArrayOf(n, v) == [i \in 0 .. n - 1 |-> v]

Len0(a) == Cardinality(DOMAIN a)

\* SQR, SQRT, ABS, ATAN2, SIN, COS of aubio_priv.h, on the exact numbers
SQR(x) == x * x

\* sqrt(q) = c*sqrt(d) with d square-free
SQRT(q) ==
  IF q = 0 THEN <<0, 1>>
  ELSE LET c == CHOOSE k \in 1 .. q :
                  /\ q % (k * k) = 0
                  /\ \A j \in (k + 1) .. q : q % (j * j) # 0
       IN <<c, q \div (c * c)>>

ABS(x) == <<Abs(x), 1>>

PI == <<0, -1>>

ZeroAngle == <<0, 1>>

ATAN2(y, x) ==
  IF y = 0 /\ x = 0 THEN ZeroAngle
  ELSE LET g == GCD(Abs(y), Abs(x)) IN <<y \div g, x \div g>>

\* norm * COS(phas) and norm * SIN(phas): c*sqrt(d) * x / sqrt(x^2 + y^2)
NormCos(norm, phas) ==
  LET h == SQRT(SQR(phas[1]) + SQR(phas[2]))
  IN (norm[1] * phas[2]) \div h[1]

NormSin(norm, phas) ==
  LET h == SQRT(SQR(phas[1]) + SQR(phas[2]))
  IN (norm[1] * phas[1]) \div h[1]

\* out[j] * renorm, renorm = 1/winsize: the reduced fraction y/n
Renorm(y, n) ==
  LET g == GCD(Abs(y), n) IN <<y \div g, n \div g>>

\* ------------------------------------------------------------- the engine

\* cos(2 pi m / N) = TwCos / TwDen, sin(2 pi m / N) = TwSin*sqrt(ImUnitSq)/TwDen
TwDen(N) == IF N = 3 THEN 2 ELSE 1

ImUnitSq(N) == IF N = 3 THEN 3 ELSE 1

TwCos(N, m) ==
  CASE N = 1 -> 1
    [] N = 2 -> <<1, -1>>[m + 1]
    [] N = 3 -> <<2, -1, -1>>[m + 1]
    [] N = 4 -> <<1, 0, -1, 0>>[m + 1]

TwSin(N, m) ==
  CASE N = 1 -> 0
    [] N = 2 -> <<0, 0>>[m + 1]
    [] N = 3 -> <<0, 1, -1>>[m + 1]
    [] N = 4 -> <<0, 1, 0, -1>>[m + 1]

\* f[0] + ... + f[n-1]
SumTo(f, n) ==
  LET s[i \in 0 .. n] == IF i = 0 THEN 0 ELSE s[i - 1] + f[i - 1]
  IN s[n]

\* fftw_plan_dft_r2c_1d(N, in, specdata): X[k] = sum_n in[n] e^{-2 pi i nk/N},
\* k = 0 .. N/2, not scaled
fftw_r2c(N, in) ==
  [k \in 0 .. N \div 2 |->
     << SumTo([n \in 0 .. N - 1 |-> in[n] * TwCos(N, (n * k) % N)], N) \div TwDen(N),
        (- SumTo([n \in 0 .. N - 1 |-> in[n] * TwSin(N, (n * k) % N)], N)) \div TwDen(N) >>]

\* fftw_plan_dft_c2r_1d(N, specdata, out): the inverse of r2c, not scaled;
\* the imaginary parts of bin 0 and, for even N, of bin N/2 are not read
fftw_c2r(N, X) ==
  [n \in 0 .. N - 1 |->
     X[0][1]
     + SumTo([k \in 0 .. (N - 1) \div 2 |->
                IF k = 0 THEN 0
                ELSE (2 * (X[k][1] * TwCos(N, (n * k) % N)
                           - X[k][2] * TwSin(N, (n * k) % N) * ImUnitSq(N)))
                     \div TwDen(N)],
             (N - 1) \div 2 + 1)
     + (IF N % 2 = 0 THEN X[N \div 2][1] * TwCos(N, (n * (N \div 2)) % N) ELSE 0)]

REAL(z) == z[1]

IMAG(z) == z[2]

\* a real value assigned to a complex cell
Cplx(re, im) == <<re, im>>


\* ------------------------------------------------------ loops and stores

Concat(ss) ==
  LET c[i \in 0 .. Len(ss)] == IF i = 0 THEN <<>> ELSE c[i - 1] \o ss[i]
  IN c[Len(ss)]

\* for (j = lo; j < hi; j++) body: the assignments <<index, value>> the
\* loop makes, in order; body[j] are those of iteration j
For(lo, hi, body) == Concat([i \in 1 .. Max(hi - lo, 0) |-> body[lo + i - 1]])

\* the array after the assignments ws, made in order; an index outside the
\* array is not stored
Store(arr, ws) ==
  LET st[i \in 0 .. Len(ws)] ==
        IF i = 0 THEN arr
        ELSE IF ws[i][1] \in DOMAIN arr
               THEN [st[i - 1] EXCEPT ![ws[i][1]] = ws[i][2]]
               ELSE st[i - 1]
  IN st[Len(ws)]

Indices(ws) == {ws[i][1] : i \in 1 .. Len(ws)}

\* ------------------------------------------- packed complex <-> polar

\* aubio_fft_get_phas with <= for < at lines 194 and 203
get_phas_writes_le(compspec, length) ==
  << <<0, IF compspec[0] <= 0 THEN PI ELSE ZeroAngle>> >>
  \o For(1, length - 1,
         [j \in Nat |-> << <<j, ATAN2(compspec[Len0(compspec) - j], compspec[j])>> >>])
  \o << <<length - 1,
          IF compspec[Len0(compspec) \div 2] <= 0 THEN PI ELSE ZeroAngle>> >>

\* aubio_fft_get_phas: the assignments to spectrum->phas
get_phas_writes(compspec, length) ==
  << <<0, IF compspec[0] < 0 THEN PI ELSE ZeroAngle>> >>
  \o For(1, length - 1,
         [j \in Nat |-> << <<j, ATAN2(compspec[Len0(compspec) - j], compspec[j])>> >>])
  \o << <<length - 1,
          IF compspec[Len0(compspec) \div 2] < 0 THEN PI ELSE ZeroAngle>> >>

\* aubio_fft_get_norm: the assignments to spectrum->norm
get_norm_writes(compspec, length) ==
  << <<0, ABS(compspec[0])>> >>
  \o For(1, length - 1,
         [j \in Nat |-> << <<j, SQRT(SQR(compspec[j])
                                 + SQR(compspec[Len0(compspec) - j]))>> >>])
  \o << <<length - 1, ABS(compspec[Len0(compspec) \div 2])>> >>

aubio_fft_get_phas(compspec, spectrum) ==
  [spectrum EXCEPT !.phas = Store(@, get_phas_writes(compspec, Len0(spectrum.phas)))]

aubio_fft_get_norm(compspec, spectrum) ==
  [spectrum EXCEPT !.norm = Store(@, get_norm_writes(compspec, Len0(spectrum.norm)))]

aubio_fft_get_spectrum(compspec, spectrum) ==
  aubio_fft_get_norm(compspec, aubio_fft_get_phas(compspec, spectrum))

\* aubio_fft_get_imag with the loop bound of aubio_fft_get_real
get_imag_writes_half(spectrum, length) ==
  For(1, length \div 2 + 1,
      [j \in Nat |-> << <<length - j, NormSin(spectrum.norm[j], spectrum.phas[j])>> >>])

\* aubio_fft_get_imag: the assignments to compspec->data
get_imag_writes(spectrum, length) ==
  For(1, (length + 1) \div 2,
      [j \in Nat |-> << <<length - j, NormSin(spectrum.norm[j], spectrum.phas[j])>> >>])

\* aubio_fft_get_real: the assignments to compspec->data
get_real_writes(spectrum, length) ==
  For(0, length \div 2 + 1,
      [j \in Nat |-> << <<j, NormCos(spectrum.norm[j], spectrum.phas[j])>> >>])

aubio_fft_get_imag(spectrum, compspec) ==
  Store(compspec, get_imag_writes(spectrum, Len0(compspec)))

aubio_fft_get_real(spectrum, compspec) ==
  Store(compspec, get_real_writes(spectrum, Len0(compspec)))

\* aubio_fft_get_realimag without the call of aubio_fft_get_imag
aubio_fft_get_realimag_noimag(spectrum, compspec) ==
  aubio_fft_get_real(spectrum, compspec)

aubio_fft_get_realimag(spectrum, compspec) ==
  aubio_fft_get_real(spectrum, aubio_fft_get_imag(spectrum, compspec))

\* ------------------------------------------- engine layout <-> packed

\* aubio_fft_do_complex, HAVE_COMPLEX_H: the assignments to compspec->data
do_complex_writes(s, length) ==
  << <<0, REAL(s.specdata[0])>> >>
  \o For(1, s.fft_size - 1,
         [j \in Nat |-> << <<j, REAL(s.specdata[j])>>,
                       <<length - j, IMAG(s.specdata[j])>> >>])
  \o << <<s.fft_size - 1, REAL(s.specdata[s.fft_size - 1])>> >>

\* lines 143-146: the frame is copied to s->in and the forward plan executed
do_complex_execute(s, input) ==
  LET in1 == Store(s.in, For(0, s.winsize, [j \in Nat |-> << <<j, input[j]>> >>]))
  IN [s EXCEPT !.in = in1, !.specdata = fftw_r2c(s.winsize, in1)]

\* the instance and the caller's compspec after aubio_fft_do_complex
aubio_fft_do_complex(s, input, compspec) ==
  LET s1 == do_complex_execute(s, input)
  IN [s |-> s1,
      compspec |-> Store(compspec, do_complex_writes(s1, Len0(compspec)))]

\* aubio_fft_rdo_complex, HAVE_COMPLEX_H: the assignments to s->specdata
rdo_complex_writes(s, compspec) ==
  << <<0, Cplx(compspec[0], 0)>> >>
  \o For(1, s.fft_size - 1,
         [j \in Nat |-> << <<j, Cplx(compspec[j], compspec[Len0(compspec) - j])>> >>])
  \o << <<s.fft_size - 1, Cplx(compspec[s.fft_size - 1], 0)>> >>

\* what executing the inverse plan leaves in its input array: FFTW's c2r
\* transform may overwrite specdata; left = <<kept, value>>
c2r_input_after(sd, left) ==
  IF left[1] THEN sd ELSE [k \in DOMAIN sd |-> left[2]]

\* the instance and the caller's output after aubio_fft_rdo_complex
aubio_fft_rdo_complex(s, compspec, output, left) ==
  LET sd   == Store(s.specdata, rdo_complex_writes(s, compspec))
      out1 == fftw_c2r(s.winsize, sd)
  IN [s |-> [s EXCEPT !.specdata = c2r_input_after(sd, left), !.out = out1],
      output |-> Store(output,
                       For(0, Len0(output),
                           [j \in Nat |-> << <<j, Renorm(out1[j], s.winsize)>> >>]))]

\* aubio_fft_do with aubio_fft_get_spectrum reading s->compspec before the
\* transform has filled it
aubio_fft_do_stale(s, input, spectrum) ==
  LET r == aubio_fft_do_complex(s, input, s.compspec)
  IN [s |-> [r.s EXCEPT !.compspec = r.compspec],
      spectrum |-> aubio_fft_get_spectrum(s.compspec, spectrum)]

\* aubio_fft_do: s->compspec is the packed vector
aubio_fft_do(s, input, spectrum) ==
  LET r  == aubio_fft_do_complex(s, input, s.compspec)
      s1 == [r.s EXCEPT !.compspec = r.compspec]
  IN [s |-> s1, spectrum |-> aubio_fft_get_spectrum(s1.compspec, spectrum)]

\* aubio_fft_rdo
aubio_fft_rdo(s, spectrum, output, left) ==
  LET s1 == [s EXCEPT !.compspec = aubio_fft_get_realimag(spectrum, s.compspec)]
  IN aubio_fft_rdo_complex(s1, s1.compspec, output, left)

\* ---------------------------------------------------------------- inputs

\* the frames a caller passes to aubio_fft_do, by window size: silence and
\* the impulses (samples are multiples of TwDen(N): the transform of the
\* frame is on the lattice)
Frames ==
  [N \in WinSizes |->
     {ArrayOf(N, 0)}
     \cup { [i \in 0 .. N - 1 |-> IF i = p[1] THEN TwDen(N) * p[2] ELSE 0] :
            p \in (0 .. N - 1) \X (((-MaxAmp) .. MaxAmp) \ {0}) }]

\* the polar form of the lattice point re + i*im
Polar(z) == [norm |-> SQRT(SQR(z[1]) + SQR(z[2])), phas |-> ATAN2(z[2], z[1])]

\* 1, -1, i, -i
UnitPoints == {<<1, 0>>, <<-1, 0>>, <<0, 1>>, <<0, -1>>}

\* the spectra a caller passes to aubio_fft_rdo, by window size: silence and
\* one bin at a unit point
Spectra ==
  [N \in WinSizes |->
     { [norm |-> [k \in 0 .. N \div 2 |-> Polar(IF k = b[1] THEN b[2] ELSE <<0, 0>>).norm],
        phas |-> [k \in 0 .. N \div 2 |-> Polar(IF k = b[1] THEN b[2] ELSE <<0, 0>>).phas]] :
       b \in (0 .. N \div 2) \X (UnitPoints \cup {<<0, 0>>}) }]

\* what the inverse plan may leave in specdata
C2RLeaves == {<<TRUE, <<0, 0>>>>, <<FALSE, <<1, 1>>>>}

\* the outcomes of the four allocations of lines 89-95
AllocOutcomes == [s : BOOLEAN, in : BOOLEAN, out : BOOLEAN, compspec : BOOLEAN]

AllocOk == [s |-> TRUE, in |-> TRUE, out |-> TRUE, compspec |-> TRUE]

\* ----------------------------------------------------------------- state

VARIABLES
  pc,       \* pc[t]: where thread t is in new_aubio_fft / del_aubio_fft
  mutex,    \* aubio_fftw_mutex: 0 unlocked, else the thread that holds it
  crashed,  \* the process has trapped on an invalid access
  inst,     \* inst[t]: the aubio_fft_t thread t created (struct _aubio_fft_t)
  caller    \* caller[t]: the caller's buffers and the last call it made

vars == <<pc, mutex, crashed, inst, caller>>

\* struct _aubio_fft_t before new_aubio_fft
NoInst ==
  [s |-> "NULL", winsize |-> 0, fft_size |-> 0,
   in |-> <<>>, out |-> <<>>, specdata |-> <<>>, compspec |-> <<>>,
   in_ok |-> FALSE, out_ok |-> FALSE, specdata_ok |-> FALSE, compspec_ok |-> FALSE,
   pfw |-> "NULL", pbw |-> "NULL"]

\* the caller's fvec_t input/output and cvec_t spectrum for window size N
NewCaller(N, last) ==
  [last |-> last, rt |-> FALSE,
   input |-> ArrayOf(N, 0),
   spectrum |-> [norm |-> ArrayOf(N \div 2 + 1, <<0, 1>>),
                 phas |-> ArrayOf(N \div 2 + 1, ZeroAngle)],
   output |-> ArrayOf(N, <<0, 1>>),
   w_pack |-> {}, w_imag |-> {}, w_real |-> {}]

Init ==
  /\ pc = [t \in Threads |-> "idle"]
  /\ mutex = 0
  /\ crashed = FALSE
  /\ inst = [t \in Threads |-> NoInst]
  /\ caller = [t \in Threads |-> NewCaller(0, "none")]

Goto(t, l) == pc' = [pc EXCEPT ![t] = l]

\* an invalid access traps
Trap == crashed' = TRUE /\ UNCHANGED <<pc, mutex, inst, caller>>

\* thread u is inside one of the engine's planner routines
InPlanner(u) == pc[u] \in {"in_pfw", "in_pbw", "in_d_pfw", "in_d_pbw"}

\* the instance can be executed: every buffer and plan exists
Usable(s) ==
  /\ s.s = "ok" /\ s.in_ok /\ s.out_ok /\ s.specdata_ok /\ s.compspec_ok
  /\ s.pfw = "plan" /\ s.pbw = "plan"

\* the engine's planner: no plan for a size < 1
fftw_plan(winsize) == IF winsize < 1 THEN "NULL" ELSE "plan"

\* ------------------------------------------------------- new_aubio_fft

\* lines 89-95: AUBIO_NEW, s->winsize, AUBIO_ARRAY x2, new_fvec; a NULL s is
\* dereferenced at line 91
new_alloc(t, winsize, a) ==
  /\ ~crashed /\ pc[t] = "idle"
  /\ \/ /\ ~a.s
        /\ Trap
     \/ /\ a.s
        /\ inst' = [inst EXCEPT ![t] =
              [NoInst EXCEPT !.s = "ok",
                             !.winsize = winsize,
                             !.in_ok = a.in, !.out_ok = a.out,
                             !.compspec_ok = a.compspec,
                             !.in = IF a.in THEN ArrayOf(winsize, 1) ELSE <<>>,
                             !.out = IF a.out THEN ArrayOf(winsize, 1) ELSE <<>>,
                             !.compspec = IF a.compspec THEN ArrayOf(winsize, 0) ELSE <<>>]]
        /\ Goto(t, "lock")
        /\ UNCHANGED <<mutex, crashed, caller>>

\* line 97: pthread_mutex_lock(&aubio_fftw_mutex)
new_lock(t) ==
  /\ ~crashed /\ pc[t] = "lock"
  /\ mutex = 0
  /\ mutex' = t
  /\ Goto(t, "specdata")
  /\ UNCHANGED <<crashed, inst, caller>>

\* lines 99-100: fft_size = winsize/2 + 1, specdata = fftw_malloc(...)
new_specdata(t, ok) ==
  /\ ~crashed /\ pc[t] = "specdata"
  /\ inst' = [inst EXCEPT ![t].fft_size = inst[t].winsize \div 2 + 1,
                          ![t].specdata_ok = ok,
                          ![t].specdata =
                             IF ok THEN ArrayOf(inst[t].winsize \div 2 + 1, <<1, 1>>)
                             ELSE <<>>]
  /\ Goto(t, "pfw")
  /\ UNCHANGED <<mutex, crashed, caller>>

\* a planner routine is entered; entering while another thread is inside one
\* is a data race on the engine's planner state
EnterPlanner(t, l) ==
  IF \E u \in Threads \ {t} : InPlanner(u)
    THEN \E o \in {"trap", "continue"} :
           IF o = "trap" THEN crashed' = TRUE /\ UNCHANGED pc
           ELSE Goto(t, l) /\ UNCHANGED crashed
    ELSE Goto(t, l) /\ UNCHANGED crashed

\* line 101: fftw_plan_dft_r2c_1d is called
new_pfw_call(t) ==
  /\ ~crashed /\ pc[t] = "pfw"
  /\ EnterPlanner(t, "in_pfw")
  /\ UNCHANGED <<mutex, inst, caller>>

\* line 101: fftw_plan_dft_r2c_1d returns, s->pfw is assigned
new_pfw_ret(t) ==
  /\ ~crashed /\ pc[t] = "in_pfw"
  /\ inst' = [inst EXCEPT ![t].pfw = fftw_plan(inst[t].winsize)]
  /\ Goto(t, "pbw")
  /\ UNCHANGED <<mutex, crashed, caller>>

\* line 102: fftw_plan_dft_c2r_1d is called
new_pbw_call(t) ==
  /\ ~crashed /\ pc[t] = "pbw"
  /\ EnterPlanner(t, "in_pbw")
  /\ UNCHANGED <<mutex, inst, caller>>

\* line 102: fftw_plan_dft_c2r_1d returns, s->pbw is assigned
new_pbw_ret(t) ==
  /\ ~crashed /\ pc[t] = "in_pbw"
  /\ inst' = [inst EXCEPT ![t].pbw = fftw_plan(inst[t].winsize)]
  /\ Goto(t, "unlock")
  /\ UNCHANGED <<mutex, crashed, caller>>

\* new_aubio_fft without line 109
new_unlock_kept(t) ==
  /\ ~crashed /\ pc[t] = "unlock"
  /\ Goto(t, "zero")
  /\ UNCHANGED <<mutex, crashed, inst, caller>>

\* line 109: pthread_mutex_unlock(&aubio_fftw_mutex)
new_unlock(t) ==
  /\ ~crashed /\ pc[t] = "unlock"
  /\ mutex' = 0
  /\ Goto(t, "zero")
  /\ UNCHANGED <<crashed, inst, caller>>

\* lines 110-116 store through a NULL pointer
ZeroFaults(s) ==
  \/ s.winsize > 0 /\ (~s.in_ok \/ ~s.out_ok)
  \/ s.fft_size > 0 /\ ~s.specdata_ok

\* the instance line 117 returns
new_result(s) ==
  [s EXCEPT !.in = IF s.in_ok THEN ArrayOf(s.winsize, 0) ELSE <<>>,
            !.out = IF s.out_ok THEN ArrayOf(s.winsize, 0) ELSE <<>>,
            !.specdata = IF s.specdata_ok THEN ArrayOf(s.fft_size, <<0, 0>>) ELSE <<>>]

\* lines 110-117: the buffers are zeroed and s is returned
new_zero_return(t) ==
  /\ ~crashed /\ pc[t] = "zero"
  /\ \/ /\ ZeroFaults(inst[t])
        /\ Trap
     \/ /\ ~ZeroFaults(inst[t])
        /\ inst' = [inst EXCEPT ![t] = new_result(inst[t])]
        /\ caller' = [caller EXCEPT ![t] = NewCaller(inst[t].winsize, "new")]
        /\ Goto(t, "ready")
        /\ UNCHANGED <<mutex, crashed>>

\* -------------------------------------------------- the transform calls

\* aubio_fft_do(s, input, spectrum) on thread t's instance
do_call(t, input) ==
  /\ ~crashed /\ pc[t] = "ready" /\ Usable(inst[t])
  /\ LET r == aubio_fft_do(inst[t], input, caller[t].spectrum)
     IN /\ inst' = [inst EXCEPT ![t] = r.s]
        /\ caller' = [caller EXCEPT
              ![t].last = "do", ![t].rt = FALSE,
              ![t].input = input,
              ![t].spectrum = r.spectrum,
              ![t].w_pack = Indices(do_complex_writes(r.s, Len0(r.s.compspec))),
              ![t].w_imag = {}, ![t].w_real = {}]
  /\ UNCHANGED <<pc, mutex, crashed>>

\* aubio_fft_rdo(s, spectrum, output) on thread t's instance
rdo_call(t, spectrum, left) ==
  /\ ~crashed /\ pc[t] = "ready" /\ Usable(inst[t])
  /\ LET r == aubio_fft_rdo(inst[t], spectrum, caller[t].output, left)
     IN /\ inst' = [inst EXCEPT ![t] = r.s]
        /\ caller' = [caller EXCEPT
              ![t].last = "rdo",
              ![t].rt = (caller[t].last = "do" /\ spectrum = caller[t].spectrum),
              ![t].spectrum = spectrum,
              ![t].output = r.output,
              ![t].w_pack = {},
              ![t].w_imag = Indices(get_imag_writes(spectrum, Len0(inst[t].compspec))),
              ![t].w_real = Indices(get_real_writes(spectrum, Len0(inst[t].compspec)))]
  /\ UNCHANGED <<pc, mutex, crashed>>

\* a transform call on an instance with a NULL plan or buffer:
\* fftw_execute(NULL), or a load or store through NULL
bad_call(t) ==
  /\ ~crashed /\ pc[t] = "ready" /\ ~Usable(inst[t])
  /\ caller[t].last # "bad"
  /\ \/ Trap
     \/ /\ caller' = [caller EXCEPT ![t].last = "bad"]
        /\ UNCHANGED <<pc, mutex, crashed, inst>>

\* ------------------------------------------------------- del_aubio_fft

\* line 122: del_fvec(s->compspec)
del_fvec(t) ==
  /\ ~crashed /\ pc[t] = "ready"
  /\ \/ /\ inst[t].s = "NULL" \/ ~inst[t].compspec_ok
        /\ Trap
     \/ /\ inst[t].s = "ok" /\ inst[t].compspec_ok
        /\ inst' = [inst EXCEPT ![t].compspec = <<>>, ![t].compspec_ok = FALSE]
        /\ Goto(t, "d_pfw")
        /\ UNCHANGED <<mutex, crashed, caller>>

\* line 123: fftw_destroy_plan(s->pfw) is called
del_pfw_call(t) ==
  /\ ~crashed /\ pc[t] = "d_pfw"
  /\ EnterPlanner(t, "in_d_pfw")
  /\ UNCHANGED <<mutex, inst, caller>>

\* line 123: fftw_destroy_plan(s->pfw) returns
del_pfw_ret(t) ==
  /\ ~crashed /\ pc[t] = "in_d_pfw"
  /\ inst' = [inst EXCEPT ![t].pfw = "NULL"]
  /\ Goto(t, "d_pbw")
  /\ UNCHANGED <<mutex, crashed, caller>>

\* line 124: fftw_destroy_plan(s->pbw) is called
del_pbw_call(t) ==
  /\ ~crashed /\ pc[t] = "d_pbw"
  /\ EnterPlanner(t, "in_d_pbw")
  /\ UNCHANGED <<mutex, inst, caller>>

\* line 124: fftw_destroy_plan(s->pbw) returns
del_pbw_ret(t) ==
  /\ ~crashed /\ pc[t] = "in_d_pbw"
  /\ inst' = [inst EXCEPT ![t].pbw = "NULL"]
  /\ Goto(t, "free")
  /\ UNCHANGED <<mutex, crashed, caller>>

\* lines 125-128: fftw_free(s->specdata), AUBIO_FREE(s->out), (s->in), (s)
del_free(t) ==
  /\ ~crashed /\ pc[t] = "free"
  /\ inst' = [inst EXCEPT ![t] = NoInst]
  /\ caller' = [caller EXCEPT ![t] = NewCaller(0, "none")]
  /\ Goto(t, "idle")
  /\ UNCHANGED <<mutex, crashed>>

\* ------------------------------------------------------ specifications

\* one caller: every window size, allocation outcome, frame and spectrum
Main == CHOOSE t \in Threads : \A u \in Threads : t <= u

Next ==
  \/ \E w \in WinSizes, a \in AllocOutcomes : new_alloc(Main, w, a)
  \/ new_lock(Main)
  \/ \E ok \in BOOLEAN : new_specdata(Main, ok)
  \/ new_pfw_call(Main)
  \/ new_pfw_ret(Main)
  \/ new_pbw_call(Main)
  \/ new_pbw_ret(Main)
  \/ new_unlock(Main)
  \/ new_zero_return(Main)
  \/ \E f \in Frames[inst[Main].winsize] : do_call(Main, f)
  \/ \E sp \in Spectra[inst[Main].winsize] \cup {caller[Main].spectrum},
        left \in C2RLeaves : rdo_call(Main, sp, left)
  \/ bad_call(Main)
  \/ del_fvec(Main)
  \/ del_pfw_call(Main)
  \/ del_pfw_ret(Main)
  \/ del_pbw_call(Main)
  \/ del_pbw_ret(Main)
  \/ del_free(Main)

Spec == Init /\ [][Next]_vars

\* several threads, each creating, using and destroying its own instance
MTWinSizes == {0, 2}

\* the unit impulse
MTFrames(N) == {[i \in 0 .. N - 1 |-> IF i = 0 THEN 1 ELSE 0]}

NextMT ==
  \E t \in Threads :
    \/ \E w \in MTWinSizes : new_alloc(t, w, AllocOk)
    \/ new_lock(t)
    \/ new_specdata(t, TRUE)
    \/ new_pfw_call(t)
    \/ new_pfw_ret(t)
    \/ new_pbw_call(t)
    \/ new_pbw_ret(t)
    \/ new_unlock(t)
    \/ new_zero_return(t)
    \/ \E f \in MTFrames(inst[t].winsize) : do_call(t, f)
    \/ rdo_call(t, caller[t].spectrum, <<TRUE, <<0, 0>>>>)
    \/ bad_call(t)
    \/ del_fvec(t)
    \/ del_pfw_call(t)
    \/ del_pfw_ret(t)
    \/ del_pbw_call(t)
    \/ del_pbw_ret(t)
    \/ del_free(t)

SpecMT == Init /\ [][NextMT]_vars
\* ---------------------------------------------------------------- claims

\* the instance new_aubio_fft(N) returns when every allocation succeeds
Constructed(N) ==
  new_result([NoInst EXCEPT !.s = "ok", !.winsize = N, !.fft_size = N \div 2 + 1,
                            !.in_ok = TRUE, !.out_ok = TRUE,
                            !.specdata_ok = TRUE, !.compspec_ok = TRUE,
                            !.compspec = ArrayOf(N, 0),
                            !.pfw = fftw_plan(N), !.pbw = fftw_plan(N)])

\* C1: every plan-creation and plan-destruction call is made by a thread
\* that holds aubio_fftw_mutex, so no two of them are in progress at once
C1_PlannerCallsHoldMutex ==
  /\ \A t \in Threads : InPlanner(t) => mutex = t
  /\ Cardinality({t \in Threads : InPlanner(t)}) <= 1

\* C2: new_aubio_fft returns no instance when the engine rejects the size
\* or an allocation fails: a returned instance has every buffer and plan
C2_ReturnedInstanceUsable ==
  pc[Main] = "ready" => Usable(inst[Main])

\* C3: aubio_fft_rdo applied to the spectrum aubio_fft_do produced from a
\* frame gives that frame back, for every window size
C3_RoundTrip ==
  (pc[Main] = "ready" /\ caller[Main].rt)
    => \A j \in DOMAIN caller[Main].input :
         caller[Main].output[j] = <<caller[Main].input[j], 1>>

\* C4: the mutex is held by a thread only between lines 97 and 109 of
\* new_aubio_fft: never after new_aubio_fft has returned, so never during
\* or after a forward or inverse call
C4_MutexOnlyWhilePlanning ==
  \A t \in Threads :
    mutex = t => pc[t] \in {"specdata", "pfw", "in_pfw", "pbw", "in_pbw", "unlock"}

C4_Witness ==
  \E t \in Threads, u \in Threads :
    /\ t # u /\ mutex = u
    /\ pc[t] = "ready" /\ caller[t].last = "rdo" /\ caller[t].rt

\* C5: after a forward call phas[0] and phas[N/2] are 0 or PI, and PI
\* exactly when the packed value at 0, at N/2, is negative
C5_DcNyquistPhase ==
  (pc[Main] = "ready" /\ caller[Main].last = "do")
    => LET c    == inst[Main].compspec
           phas == caller[Main].spectrum.phas
           h    == inst[Main].winsize \div 2
       IN /\ phas[0] \in {ZeroAngle, PI}
          /\ phas[h] \in {ZeroAngle, PI}
          /\ (phas[0] = PI) <=> (c[0] < 0)
          /\ (phas[h] = PI) <=> (c[h] < 0)

C5_Witness ==
  /\ pc[Main] = "ready" /\ caller[Main].last = "do" /\ inst[Main].winsize = 4
  /\ inst[Main].compspec[0] > 0 /\ caller[Main].spectrum.phas[0] = ZeroAngle
  /\ inst[Main].compspec[2] < 0 /\ caller[Main].spectrum.phas[2] = PI

\* C6: the forward transform of a frame of zeros gives norm 0 and phase 0
\* in every bin, whatever earlier calls left in the instance
C6_ZeroFrame ==
  (/\ pc[Main] = "ready" /\ caller[Main].last = "do"
   /\ \A j \in DOMAIN caller[Main].input : caller[Main].input[j] = 0)
    => \A k \in 0 .. inst[Main].winsize \div 2 :
         /\ caller[Main].spectrum.norm[k] = <<0, 1>>
         /\ caller[Main].spectrum.phas[k] = ZeroAngle

C6_Witness ==
  /\ pc[Main] = "ready" /\ caller[Main].last = "do" /\ inst[Main].winsize = 4
  /\ \A j \in DOMAIN caller[Main].input : caller[Main].input[j] = 0
  /\ \E j \in DOMAIN inst[Main].out : inst[Main].out[j] # 0
  /\ \A k \in 0 .. 2 : caller[Main].spectrum.norm[k] = <<0, 1>>

\* C7: after aubio_fft_do_complex the packed vector holds Re(bin j) at j
\* for 0 <= j <= N/2 and Im(bin j) at N-j for 1 <= j < N/2, the call has
\* written every index 0..N-1 and none outside
C7_Packing ==
  (pc[Main] = "ready" /\ caller[Main].last = "do")
    => LET s == inst[Main]
           N == s.winsize
       IN /\ s.compspec[0] = REAL(s.specdata[0])
          /\ \A j \in 1 .. N \div 2 - 1 :
               /\ s.compspec[j] = REAL(s.specdata[j])
               /\ s.compspec[N - j] = IMAG(s.specdata[j])
          /\ s.compspec[N \div 2] = REAL(s.specdata[N \div 2])
          /\ caller[Main].w_pack = 0 .. N - 1

\* C8: aubio_fft_get_imag writes exactly the indices N-k, 1 <= k < (N+1)/2,
\* aubio_fft_get_real exactly 0..N/2; the two sets are disjoint and cover
\* 0..N-1, each index is written once, and the order of the two steps does
\* not change the result
C8_RealImagPartition ==
  (pc[Main] = "ready" /\ caller[Main].last = "rdo")
    => LET N  == inst[Main].winsize
           sp == caller[Main].spectrum
           wi == get_imag_writes(sp, N)
           wr == get_real_writes(sp, N)
       IN /\ caller[Main].w_imag = {N - k : k \in 1 .. (N + 1) \div 2 - 1}
          /\ caller[Main].w_real = 0 .. N \div 2
          /\ caller[Main].w_imag \cap caller[Main].w_real = {}
          /\ caller[Main].w_imag \cup caller[Main].w_real = 0 .. N - 1
          /\ Len(wi) + Len(wr) = N
          /\ 0 \notin caller[Main].w_imag /\ N \div 2 \notin caller[Main].w_imag
          /\ inst[Main].compspec
               = aubio_fft_get_imag(sp, aubio_fft_get_real(sp, ArrayOf(N, 0)))

C8_Witness ==
  /\ pc[Main] = "ready" /\ caller[Main].last = "rdo" /\ inst[Main].winsize = 3
  /\ caller[Main].w_imag = {2} /\ caller[Main].w_real = {0, 1}
  /\ inst[Main].compspec[2] # 0 /\ inst[Main].compspec[1] = 0

\* C9: unpacking (aubio_fft_rdo_complex) the vector aubio_fft_do_complex
\* packed gives back the real and the imaginary part of every bin the
\* forward transform produced
C9_UnpackInvertsPack ==
  (pc[Main] = "ready" /\ caller[Main].last = "do")
    => Store(inst[Main].specdata,
             rdo_complex_writes(inst[Main], inst[Main].compspec))
         = inst[Main].specdata

\* C10: the output of a call is the output a newly constructed instance of
\* the same window size gives for the same input
C10_NoStaleState ==
  pc[Main] = "ready" =>
    LET N == inst[Main].winsize
    IN /\ caller[Main].last = "do" =>
            caller[Main].spectrum
              = aubio_fft_do(Constructed(N), caller[Main].input,
                             NewCaller(N, "new").spectrum).spectrum
       /\ caller[Main].last = "rdo" =>
            caller[Main].output
              = aubio_fft_rdo(Constructed(N), caller[Main].spectrum,
                              NewCaller(N, "new").output, <<TRUE, <<0, 0>>>>).output

C10_Witness ==
  /\ pc[Main] = "ready" /\ caller[Main].last = "rdo" /\ inst[Main].winsize = 4
  /\ ~caller[Main].rt
  /\ \E j \in DOMAIN inst[Main].in : inst[Main].in[j] # 0
  /\ \E j \in DOMAIN caller[Main].output : caller[Main].output[j] # <<0, 1>>
  /\ inst[Main].specdata # Constructed(4).specdata

=============================================================================
